---- MODULE Spec2Model ----
(***************************************************************************)
(* Model of get-app-critical-findings.py: a command-line script that reads *)
(* two environment variables, resolves an application name to its id with  *)
(* one GET, fetches one page of critical findings with a second GET and    *)
(* prints a sorted report.                                                 *)
(*                                                                         *)
(* Python str values are TLA+ strings, handled character by character with *)
(* Len, SubSeq and \o.  A dict is the sequence of its <<key, value>> items *)
(* in insertion order.  The remote service is the environment: every       *)
(* response (status and JSON body) is chosen nondeterministically.         *)
(***************************************************************************)
EXTENDS Integers, Sequences, FiniteSets, TLC

VARIABLES
    env,          \* os.environ restricted to the two variables the script reads
    argv,         \* sys.argv
    pc,           \* position of the script: import, main, get_app_id, ...
    vars,         \* resolver.vars (insertion-ordered dict), <<>> before construction
    api_headers,  \* module-level api_headers dict
    call,         \* arguments and return value of the last Resolver.resolve() call
    reqs,         \* every requests.get() issued so far, in order
    r,            \* the last response received: status code and JSON body
    statuses,     \* status code of the response to each request, in order
    app_id,       \* local app_id of __main__
    findings,     \* list returned by get_crit_findings
    stdout,       \* text written by each print() call, in order
    exc,          \* uncaught exception that ended the run, or NoExc
    exit_code     \* process exit status, -1 while running

state == <<env, argv, pc, vars, api_headers, call, reqs, r, statuses, app_id,
           findings, stdout, exc, exit_code>>

----------------------------------------------------------------------------
(* Bounds of the model *)

MaxApps == 3        \* longest 'list applications' response array
MaxFindings == 3    \* longest findings array of a response
MaxPieces == 2      \* longest template, in pieces, given to resolve() directly

(* Program constants *)

PerPage == 249

ApiBase == "https://www.shiftleft.io/api/v4"
TokenVar == "SHIFTLEFT_API_TOKEN"
OrgVar == "SHIFTLEFT_ORG_ID"
AppsTemplate == "/orgs/{orgID}/apps"
FindingsTemplate == "/orgs/{orgID}/apps/{appID}/findings"
UsageText == "usage: %s <app_name>\n"
WarningText == "!!! Warning: results truncated to 249 findings"
HeaderText == "Critical severity findings:"

----------------------------------------------------------------------------
(* Input domains *)

TokenValues == {"t0k"}
OrgValues == {"42", "{appID}"}
EnvChoices ==
    { e \in UNION { [S -> TokenValues \cup OrgValues] : S \in SUBSET {TokenVar, OrgVar} } :
        /\ TokenVar \in DOMAIN e => e[TokenVar] \in TokenValues
        /\ OrgVar \in DOMAIN e => e[OrgVar] \in OrgValues }
AppNames == {"app", "App", "ap", "apps"}
ArgvChoices == {<<"prog">>} \cup {<<"prog", n>> : n \in {"app", "zzz"}}
AppIds == {"7", "8"}
AppRecords == [id : AppIds, name : AppNames]
FindingIds == {3, 10, 12}
Titles == {"xss", "a b"}
FindingRecords == [id : FindingIds, title : Titles]
HttpStatuses == {200, 300, 404, 500}

SeqsUpTo(S, n) == UNION { [1..k -> S] : k \in 0..n }

(* Python values of the optional next_page member of the findings body *)
PyNone == [type |-> "NoneType"]
PyStr(s) == [type |-> "str", val |-> s]
NextPageValues == {PyNone, PyStr(""), PyStr("/p2")}

----------------------------------------------------------------------------
(* Exceptions *)

NoExc == [type |-> "none", arg |-> ""]
KeyError(k) == [type |-> "KeyError", arg |-> k]
HTTPError(s) == [type |-> "HTTPError", arg |-> ToString(s)]
IndexError == [type |-> "IndexError", arg |-> "list index out of range"]

----------------------------------------------------------------------------
(* str.replace(old, new): leftmost non-overlapping occurrences, old non-empty *)

RECURSIVE Replace(_, _, _)
Replace(s, old, new) ==
    IF Len(s) < Len(old) THEN s
    ELSE IF SubSeq(s, 1, Len(old)) = old
         THEN new \o Replace(SubSeq(s, Len(old) + 1, Len(s)), old, new)
         ELSE SubSeq(s, 1, 1) \o Replace(SubSeq(s, 2, Len(s)), old, new)

(* dict: sequence of <<key, value>> in insertion order *)

Keys(d) == { d[i][1] : i \in 1..Len(d) }
Lookup(d, k) == d[CHOOSE i \in 1..Len(d) : d[i][1] = k][2]

(* d[k] = v: an existing key keeps its position, a new key goes last *)
DictSet(d, k, v) ==
    IF k \in Keys(d)
    THEN [i \in 1..Len(d) |-> IF d[i][1] = k THEN <<k, v>> ELSE d[i]]
    ELSE Append(d, <<k, v>>)

RECURSIVE DictUpdate(_, _)
DictUpdate(d, e) ==
    IF e = <<>> THEN d
    ELSE DictUpdate(DictSet(d, e[1][1], e[1][2]), Tail(e))

(* for k,v in _vars.items(): x = x.replace('{'+k+'}', v) *)
RECURSIVE ReplaceAll(_, _)
ReplaceAll(x, items) ==
    IF items = <<>> THEN x
    ELSE ReplaceAll(Replace(x, "{" \o items[1][1] \o "}", items[1][2]), Tail(items))

(* Resolver.resolve(template, **extra) on the resolver whose vars is selfvars *)
resolve(selfvars, template, extra) ==
    ReplaceAll(template, DictUpdate(DictUpdate(<<>>, selfvars), extra))

CallOf(selfvars, template, extra) ==
    [template |-> template, extra |-> extra,
     result |-> resolve(selfvars, template, extra)]

(* make_url(template, **extra) *)
make_url(selfvars, template, extra) ==
    resolve(selfvars, "{api_base}" \o template, extra)

NoCall == [template |-> "", extra |-> <<>>, result |-> ""]

NoResponse == [status |-> 0, json |-> <<>>]

----------------------------------------------------------------------------
Init ==
    /\ env \in EnvChoices
    /\ argv \in ArgvChoices
    /\ pc = "import"
    /\ vars = <<>>
    /\ api_headers = <<>>
    /\ call = NoCall
    /\ reqs = <<>>
    /\ r = NoResponse
    /\ statuses = <<>>
    /\ app_id = ""
    /\ findings = <<>>
    /\ stdout = <<>>
    /\ exc = NoExc
    /\ exit_code = -1

(* An uncaught exception ends the interpreter with status 1 *)
Raise(e) ==
    /\ exc' = e
    /\ exit_code' = 1
    /\ pc' = "exit"

(* Faulty variant of ResolverInit: os.environ.get(..., '') instead of        *)
(* os.environ[...], so a missing variable no longer stops the run            *)
ResolverInit_default ==
    /\ pc = "import"
    /\ LET token == IF TokenVar \in DOMAIN env THEN env[TokenVar] ELSE ""
           org == IF OrgVar \in DOMAIN env THEN env[OrgVar] ELSE ""
       IN  /\ vars' = << <<"authHDR", "Bearer " \o token>>,
                         <<"api_base", ApiBase>>,
                         <<"orgID", org>> >>
           /\ api_headers' = << <<"Authorization", "Bearer " \o token>> >>
    /\ pc' = "main"
    /\ UNCHANGED <<env, argv, call, reqs, r, statuses, app_id, findings, stdout,
                   exc, exit_code>>

(* Resolver.__init__: os.environ[...] raises KeyError on a missing variable *)
ResolverInit ==
    /\ pc = "import"
    /\ IF TokenVar \notin DOMAIN env
       THEN Raise(KeyError(TokenVar)) /\ UNCHANGED <<vars, api_headers>>
       ELSE IF OrgVar \notin DOMAIN env
       THEN Raise(KeyError(OrgVar)) /\ UNCHANGED <<vars, api_headers>>
       ELSE /\ vars' = << <<"authHDR", "Bearer " \o env[TokenVar]>>,
                          <<"api_base", ApiBase>>,
                          <<"orgID", env[OrgVar]>> >>
            /\ api_headers' = << <<"Authorization", "Bearer " \o env[TokenVar]>> >>
            /\ pc' = "main"
            /\ UNCHANGED <<exc, exit_code>>
    /\ UNCHANGED <<env, argv, call, reqs, r, statuses, app_id, findings, stdout>>

(* Faulty variant of MainArgs: sys.exit(0) after the usage message *)
MainArgs_exit0 ==
    /\ pc = "main"
    /\ IF Len(argv) < 2
       THEN /\ stdout' = Append(stdout, UsageText)
            /\ exit_code' = 0
            /\ pc' = "exit"
       ELSE /\ pc' = "get_app_id"
            /\ UNCHANGED <<stdout, exit_code>>
    /\ UNCHANGED <<env, argv, vars, api_headers, call, reqs, r, statuses, app_id,
                   findings, exc>>

(* __main__, lines 146-148: the argument check *)
MainArgs ==
    /\ pc = "main"
    /\ IF Len(argv) < 2
       THEN /\ stdout' = Append(stdout, UsageText)
            /\ exit_code' = 1
            /\ pc' = "exit"
       ELSE /\ pc' = "get_app_id"
            /\ UNCHANGED <<stdout, exit_code>>
    /\ UNCHANGED <<env, argv, vars, api_headers, call, reqs, r, statuses, app_id,
                   findings, exc>>

(* Faulty variant of RaisesForStatus: only server errors raise *)
RaisesForStatus_5xx(status) == status >= 500 /\ status < 600

(* Response.raise_for_status(): raises HTTPError on a 4xx or 5xx status *)
RaisesForStatus(status) == status >= 400 /\ status < 600

(* Faulty variant of MatchingIds: the matches in reverse order, so that [0]  *)
(* is the last match                                                          *)
MatchingIds_last(response, appname) ==
    LET hits == SelectSeq(response, LAMBDA x : x.name = appname)
    IN  [i \in 1..Len(hits) |-> hits[Len(hits) + 1 - i].id]

(* [x['id'] for x in response if x['name']==appname] *)
MatchingIds(response, appname) ==
    LET hits == SelectSeq(response, LAMBDA x : x.name = appname)
    IN  [i \in 1..Len(hits) |-> hits[i].id]

AppsBodies == { [response |-> a] : a \in SeqsUpTo(AppRecords, MaxApps) }
ErrorBody == [message |-> "error"]

(* get_app_id, lines 89-92: build the URL, issue the GET, receive r *)
GetAppIdRequest ==
    /\ pc = "get_app_id"
    /\ call' = CallOf(vars, "{api_base}" \o AppsTemplate, <<>>)
    /\ reqs' = Append(reqs, [url |-> make_url(vars, AppsTemplate, <<>>),
                             params |-> <<>>,
                             headers |-> api_headers])
    /\ pc' = "get_app_id_94"
    /\ \E status \in HttpStatuses :
       \E body \in (IF RaisesForStatus(status) THEN {ErrorBody} ELSE AppsBodies) :
         /\ r' = [status |-> status, json |-> body]
         /\ statuses' = Append(statuses, status)
    /\ UNCHANGED <<env, argv, vars, api_headers, app_id, findings, stdout,
                   exc, exit_code>>

(* get_app_id, lines 94-99, and the assignment of line 151; the local r ends *)
(* with the function                                                        *)
GetAppIdReturn ==
    /\ pc = "get_app_id_94"
    /\ IF RaisesForStatus(r.status)
       THEN Raise(HTTPError(r.status)) /\ UNCHANGED app_id
       ELSE LET ids == MatchingIds(r.json.response, argv[2])
            IN  IF ids = <<>>
                THEN Raise(IndexError) /\ UNCHANGED app_id
                ELSE /\ app_id' = ids[1]
                     /\ pc' = "get_crit_findings"
                     /\ UNCHANGED <<exc, exit_code>>
    /\ r' = NoResponse
    /\ UNCHANGED <<env, argv, vars, api_headers, call, reqs, statuses,
                   findings, stdout>>

(* dict.get(key): None when the key is absent *)
JsonGet(obj, key) == IF key \in DOMAIN obj THEN obj[key] ELSE PyNone

(* Faulty variant of Truthy: 'is not None' instead of the truth value *)
Truthy_notNone(v) == v.type # "NoneType"

(* truth value of a Python object *)
Truthy(v) ==
    CASE v.type = "NoneType" -> FALSE
      [] v.type = "str" -> v.val # ""

FindingsBodies ==
    { [response |-> [findings |-> f]] : f \in SeqsUpTo(FindingRecords, MaxFindings) }
    \cup
    { [response |-> [findings |-> f], next_page |-> n] :
        f \in SeqsUpTo(FindingRecords, MaxFindings), n \in NextPageValues }

(* get_crit_findings, lines 114-127: build the URL and the filters, issue *)
(* the GET, receive r                                                      *)
GetCritFindingsRequest ==
    /\ pc = "get_crit_findings"
    /\ call' = CallOf(vars, "{api_base}" \o FindingsTemplate, << <<"appID", app_id>> >>)
    /\ reqs' = Append(reqs, [url |-> make_url(vars, FindingsTemplate,
                                             << <<"appID", app_id>> >>),
                             params |-> << <<"severity", "critical">>,
                                           <<"per_page", PerPage>> >>,
                             headers |-> api_headers])
    /\ pc' = "get_crit_findings_129"
    /\ \E status \in HttpStatuses :
       \E body \in (IF RaisesForStatus(status) THEN {ErrorBody} ELSE FindingsBodies) :
         /\ r' = [status |-> status, json |-> body]
         /\ statuses' = Append(statuses, status)
    /\ UNCHANGED <<env, argv, vars, api_headers, app_id, findings, stdout,
                   exc, exit_code>>

(* get_crit_findings, lines 129-137, and the assignment of line 154 *)
GetCritFindingsReturn ==
    /\ pc = "get_crit_findings_129"
    /\ IF RaisesForStatus(r.status)
       THEN Raise(HTTPError(r.status)) /\ UNCHANGED <<findings, stdout>>
       ELSE /\ stdout' = IF Truthy(JsonGet(r.json, "next_page"))
                         THEN Append(stdout, WarningText)
                         ELSE stdout
            /\ findings' = r.json.response.findings
            /\ pc' = "report"
            /\ UNCHANGED <<exc, exit_code>>
    /\ r' = NoResponse
    /\ UNCHANGED <<env, argv, vars, api_headers, call, reqs, statuses, app_id>>

----------------------------------------------------------------------------
(* Report formatting, lines 156-163 *)

(* Characters in code-point order; Ord gives a character's rank in it *)
CodeOrder == " #%0123456789:<>ABCDEFGHIJKLMNOPQRSTUVWXYZ_abcdefghijklmnopqrstuvwxyz{}"
Ord(c) == CHOOSE i \in 1..Len(CodeOrder) : SubSeq(CodeOrder, i, i) = c

(* a < b on str: lexicographic by code point *)
RECURSIVE StrLess(_, _)
StrLess(a, b) ==
    IF b = "" THEN FALSE
    ELSE IF a = "" THEN TRUE
    ELSE IF SubSeq(a, 1, 1) = SubSeq(b, 1, 1)
         THEN StrLess(SubSeq(a, 2, Len(a)), SubSeq(b, 2, Len(b)))
         ELSE Ord(SubSeq(a, 1, 1)) < Ord(SubSeq(b, 1, 1))

(* a < b on (id, title) tuples *)
TupleLess(a, b) == a[1] < b[1] \/ (a[1] = b[1] /\ StrLess(a[2], b[2]))

RECURSIVE InsertSorted(_, _)
InsertSorted(s, x) ==
    IF s = <<>> THEN <<x>>
    ELSE IF TupleLess(x, s[1]) THEN <<x>> \o s
    ELSE <<s[1]>> \o InsertSorted(Tail(s), x)

(* Faulty variant of sorted: the list as it came *)
sorted_unsorted(l) == l

(* sorted(list): ascending and stable *)
RECURSIVE sorted(_)
sorted(l) ==
    IF l = <<>> THEN <<>>
    ELSE InsertSorted(sorted(SubSeq(l, 1, Len(l) - 1)), l[Len(l)])

(* str(n) of a non-negative int *)
RECURSIVE IntToStr(_)
IntToStr(n) ==
    IF n < 10 THEN SubSeq("0123456789", n + 1, n + 1)
    ELSE IntToStr(n \div 10) \o SubSeq("0123456789", (n % 10) + 1, (n % 10) + 1)

(* '#%s %s' % x *)
FormatLine(x) == "#" \o IntToStr(x[1]) \o " " \o x[2]

(* sep.join(list) *)
RECURSIVE Join(_, _)
Join(l, sep) ==
    IF l = <<>> THEN ""
    ELSE IF Len(l) = 1 THEN l[1]
    ELSE l[1] \o sep \o Join(Tail(l), sep)

(* Faulty variant of Pairs: only the first finding of each id is kept *)
Pairs_dedup(f) ==
    LET keep == SelectSeq([i \in 1..Len(f) |-> <<i, f[i]>>],
                          LAMBDA p : \A j \in 1..(p[1] - 1) : f[j].id # p[2].id)
    IN  [i \in 1..Len(keep) |-> <<keep[i][2].id, keep[i][2].title>>]

(* [ (x['id'],x['title']) for x in crit_findings ] *)
Pairs(f) == [i \in 1..Len(f) |-> <<f[i].id, f[i].title>>]

ReportLines(f) ==
    LET s == sorted(Pairs(f))
    IN  [i \in 1..Len(s) |-> FormatLine(s[i])]

(* Faulty variant of Report: the header is printed without the emptiness test *)
Report_always ==
    /\ pc = "report"
    /\ stdout' = stdout \o <<HeaderText, Join(ReportLines(findings), "\n")>>
    /\ pc' = "exit"
    /\ exit_code' = 0
    /\ UNCHANGED <<env, argv, vars, api_headers, call, reqs, r, statuses, app_id,
                   findings, exc>>

Report ==
    /\ pc = "report"
    /\ LET lines == ReportLines(findings)
       IN  stdout' = IF lines # <<>>
                     THEN stdout \o <<HeaderText, Join(lines, "\n")>>
                     ELSE stdout
    /\ pc' = "exit"
    /\ exit_code' = 0
    /\ UNCHANGED <<env, argv, vars, api_headers, call, reqs, r, statuses, app_id,
                   findings, exc>>

Next ==
    \/ ResolverInit
    \/ MainArgs
    \/ GetAppIdRequest
    \/ GetAppIdReturn
    \/ GetCritFindingsRequest
    \/ GetCritFindingsReturn
    \/ Report

Spec == Init /\ [][Next]_state

----------------------------------------------------------------------------
(* Direct calls of Resolver.resolve() on the constructed resolver *)

Pieces == {"{orgID}", "{appID}", "{api_base}", "{authHDR}", "{x}", "{", "}", "/", "appID"}

RECURSIVE Concat(_)
Concat(ps) == IF ps = <<>> THEN "" ELSE ps[1] \o Concat(Tail(ps))

Templates == { Concat(ps) : ps \in SeqsUpTo(Pieces, MaxPieces) }

ExtraKeys == {"appID", "orgID", "authHDR"}
ExtraValues == {"7", "{orgID}", "{appID}"}
Extras ==
    {<<>>}
    \cup { << <<k, v>> >> : k \in ExtraKeys, v \in ExtraValues }
    \cup { << <<"appID", v>>, <<"orgID", w>> >> : v \in ExtraValues, w \in ExtraValues }

ResolveCall ==
    /\ pc = "main"
    /\ call = NoCall
    /\ \E template \in Templates, extra \in Extras :
         call' = CallOf(vars, template, extra)
    /\ UNCHANGED <<env, argv, pc, vars, api_headers, reqs, r, statuses, app_id,
                   findings, stdout, exc, exit_code>>

NextResolve ==
    \/ ResolverInit
    \/ ResolveCall

SpecResolve == Init /\ [][NextResolve]_state
----------------------------------------------------------------------------
(* Reading the output back: what the properties below say about stdout *)

RECURSIVE SplitLines(_)
SplitLines(s) ==
    LET nl == { i \in 1..Len(s) : SubSeq(s, i, i) = "\n" }
    IN  IF nl = {} THEN <<s>>
        ELSE LET i == CHOOSE k \in nl : \A j \in nl : k <= j
             IN  <<SubSeq(s, 1, i - 1)>> \o SplitLines(SubSeq(s, i + 1, Len(s)))

HeaderAt == { i \in 1..Len(stdout) : stdout[i] = HeaderText }
HeaderPrinted == HeaderAt # {}
WarningCount == Cardinality({ i \in 1..Len(stdout) : stdout[i] = WarningText })

(* the report lines that follow the header on stdout *)
PrintedLines ==
    IF HeaderAt = {} THEN <<>>
    ELSE SplitLines(stdout[(CHOOSE i \in HeaderAt : TRUE) + 1])

FirstSpace(line) ==
    CHOOSE i \in 1..Len(line) :
        /\ SubSeq(line, i, i) = " "
        /\ \A j \in 1..(i - 1) : SubSeq(line, j, j) # " "

DigitVal(c) == (CHOOSE i \in 1..10 : SubSeq("0123456789", i, i) = c) - 1

RECURSIVE StrToInt(_)
StrToInt(d) ==
    IF d = "" THEN 0
    ELSE StrToInt(SubSeq(d, 1, Len(d) - 1)) * 10 + DigitVal(SubSeq(d, Len(d), Len(d)))

LineId(line) == StrToInt(SubSeq(line, 2, FirstSpace(line) - 1))
LineTitle(line) == SubSeq(line, FirstSpace(line) + 1, Len(line))

EnvComplete == TokenVar \in DOMAIN env /\ OrgVar \in DOMAIN env
Finished == pc = "exit"
Reported == pc = "exit" /\ exit_code = 0

----------------------------------------------------------------------------
(* C1: for every 'list applications' response that get_app_id accepts and   *)
(* every appName equal to the name of at least one record, get_app_id        *)
(* returns the id of the first record, in response order, whose name is      *)
(* exactly appName; records whose name differs in case, or is a prefix or a  *)
(* superstring of appName, are passed over.                                  *)
FirstExact(response, appname) ==
    CHOOSE i \in 1..Len(response) :
        /\ response[i].name = appname
        /\ \A j \in 1..(i - 1) : response[j].name # appname

C1_FirstExactMatch ==
    [][ ( /\ pc = "get_app_id_94"
          /\ r.status \notin 400..599
          /\ \E i \in 1..Len(r.json.response) : r.json.response[i].name = argv[2] )
        => ( /\ pc' = "get_crit_findings"
             /\ exc' = NoExc
             /\ app_id' = r.json.response[FirstExact(r.json.response, argv[2])].id )
      ]_state

(* a response in which a case variant precedes two exact matches with        *)
(* different ids has arrived                                                 *)
C1_Witness ==
    /\ pc = "get_app_id_94"
    /\ r.status = 200
    /\ Len(argv) = 2
    /\ argv[2] = "app"
    /\ r.json.response = << [id |-> "7", name |-> "App"],
                            [id |-> "8", name |-> "app"],
                            [id |-> "7", name |-> "app"] >>

(* C2: the report lines printed by the entry point are in non-decreasing     *)
(* order of finding id, and each line is exactly '#<id> <title>' for a       *)
(* finding of the payload.                                                   *)
C2_SortedFormatted ==
    Reported =>
        /\ \A i \in 1..Len(PrintedLines) : \A j \in i..Len(PrintedLines) :
               LineId(PrintedLines[i]) <= LineId(PrintedLines[j])
        /\ \A i \in 1..Len(PrintedLines) :
               \E k \in 1..Len(findings) :
                   /\ PrintedLines[i] =
                          "#" \o IntToStr(findings[k].id) \o " " \o findings[k].title
                   /\ LineId(PrintedLines[i]) = findings[k].id
                   /\ LineTitle(PrintedLines[i]) = findings[k].title

(* a payload that arrives out of order, with a two-digit id first, is printed *)
C2_Witness ==
    /\ Reported
    /\ Len(findings) = 3
    /\ findings[1].id = 12 /\ findings[2].id = 3 /\ findings[3].id = 10
    /\ findings[2].title = "a b"
    /\ Len(PrintedLines) = 3

(* C3: when the application name matches no record of an accepted 'list      *)
(* applications' response, the run ends in a descriptive 'application not    *)
(* found' error, issues no findings request and returns no id.               *)
C3_NotFoundIsDescriptive ==
    [][ ( /\ pc = "get_app_id_94"
          /\ ~RaisesForStatus(r.status)
          /\ \A i \in 1..Len(r.json.response) : r.json.response[i].name # argv[2] )
        => ( /\ pc' = "exit"
             /\ exc'.type = "ApplicationNotFound"
             /\ app_id' = ""
             /\ reqs' = reqs )
      ]_state

(* C4: when SHIFTLEFT_API_TOKEN or SHIFTLEFT_ORG_ID is unset, the first step *)
(* of the run ends it with the KeyError of the first missing variable, and   *)
(* no HTTP request is ever issued, nothing is resolved or printed.           *)
C4_ConfigErrorBeforeNetwork ==
    ~EnvComplete =>
        /\ reqs = <<>>
        /\ statuses = <<>>
        /\ call = NoCall
        /\ stdout = <<>>
        /\ pc \in {"import", "exit"}
        /\ pc = "exit" =>
               /\ exit_code = 1
               /\ exc = KeyError(IF TokenVar \notin DOMAIN env THEN TokenVar ELSE OrgVar)

C4_Witness ==
    /\ TokenVar \in DOMAIN env
    /\ OrgVar \notin DOMAIN env
    /\ Finished
    /\ exc = KeyError(OrgVar)

(* C5: a findings response with a truthy next_page makes get_crit_findings   *)
(* print the truncation warning once and return that page's findings; a      *)
(* response whose next_page is absent or falsy prints nothing; the warning   *)
(* is on stdout at most once, at most one findings request is made, and a    *)
(* finished report holds one line per finding of the page.                   *)
C5_WarnStep ==
    ( /\ pc = "get_crit_findings_129"
      /\ ~RaisesForStatus(r.status) )
    => ( /\ pc' = "report"
         /\ findings' = r.json.response.findings
         /\ reqs' = reqs
         /\ IF /\ "next_page" \in DOMAIN r.json
               /\ r.json.next_page # PyNone
               /\ r.json.next_page # PyStr("")
            THEN stdout' = Append(stdout, WarningText)
            ELSE stdout' = stdout )

C5_WarnState ==
    /\ WarningCount <= 1
    /\ Len(reqs) <= 2
    /\ WarningCount = 1 => pc \in {"report", "exit"} /\ exc = NoExc
    /\ Reported =>
           /\ Len(reqs) = 2
           /\ Len(PrintedLines) = Len(findings)
           /\ \A f \in FindingRecords :
                  Cardinality({ i \in 1..Len(PrintedLines) :
                                  PrintedLines[i] = FormatLine(<<f.id, f.title>>) })
                  = Cardinality({ k \in 1..Len(findings) : findings[k] = f })

C5_TruncationWarning == [][C5_WarnStep]_state /\ []C5_WarnState

C5_Witness ==
    /\ Reported
    /\ WarningCount = 1
    /\ stdout[1] = WarningText
    /\ Len(findings) = 2
    /\ HeaderPrinted

(* C6, as amended: in every run started without an <app_name> argument no    *)
(* HTTP request is issued and no report is printed; when both environment    *)
(* variables are set the run prints the usage message and exits with status  *)
(* 1, and when one is missing it ends before the argument check with the     *)
(* KeyError of Resolver(), printing nothing.                                 *)
C6_UsageWhenConfigured ==
    Len(argv) < 2 =>
        /\ reqs = <<>>
        /\ ~HeaderPrinted
        /\ pc \in {"import", "main", "exit"}
        /\ Finished =>
               /\ exit_code = 1
               /\ IF EnvComplete
                  THEN stdout = <<UsageText>> /\ exc = NoExc
                  ELSE stdout = <<>> /\ exc.type = "KeyError"

C6_Witness ==
    /\ Len(argv) < 2
    /\ EnvComplete
    /\ Finished
    /\ stdout = <<UsageText>>
    /\ exit_code = 1

(* C6 as stated: every run started without an <app_name> argument prints the *)
(* usage message and exits with status 1, with no request and no report.     *)
C6_Original ==
    (Len(argv) < 2 /\ Finished) =>
        /\ stdout = <<UsageText>>
        /\ exit_code = 1
        /\ reqs = <<>>

(* C7: resolve(template, extra) equals one simultaneous substitution on the  *)
(* original template: every '{k}' of a key k of the merged mapping (extra    *)
(* values winning over base values) is replaced by that key's value and      *)
(* every other character, unknown placeholders included, is left unchanged,  *)
(* whatever text the substituted values contain.                             *)
MergedValue(base, extra, k) ==
    IF k \in Keys(extra) THEN Lookup(extra, k) ELSE Lookup(base, k)

RECURSIVE Simultaneous(_, _, _)
Simultaneous(t, base, extra) ==
    IF t = "" THEN ""
    ELSE LET here == { k \in Keys(base) \cup Keys(extra) :
                         /\ Len(t) >= Len(k) + 2
                         /\ SubSeq(t, 1, Len(k) + 2) = "{" \o k \o "}" }
         IN  IF here = {}
             THEN SubSeq(t, 1, 1) \o Simultaneous(SubSeq(t, 2, Len(t)), base, extra)
             ELSE LET k == CHOOSE x \in here : TRUE
                  IN  MergedValue(base, extra, k)
                      \o Simultaneous(SubSeq(t, Len(k) + 3, Len(t)), base, extra)

C7_SimultaneousSubstitution ==
    call # NoCall =>
        call.result = Simultaneous(call.template, vars, call.extra)

(* C8, as amended: the printed list is not de-duplicated: it carries one     *)
(* report line per finding of the payload, so every id is printed as many    *)
(* times as the payload holds findings with that id, and two printed lines   *)
(* carry the same id exactly when two findings of the payload do.            *)
C8_OneLinePerFinding ==
    Reported =>
        /\ Len(PrintedLines) = Len(findings)
        /\ \A id \in FindingIds :
               Cardinality({ i \in 1..Len(PrintedLines) : LineId(PrintedLines[i]) = id })
               = Cardinality({ k \in 1..Len(findings) : findings[k].id = id })

C8_Witness ==
    /\ Reported
    /\ Len(findings) = 3
    /\ findings[1].id = 10 /\ findings[2].id = 3 /\ findings[3].id = 10
    /\ Len(PrintedLines) = 3
    /\ LineId(PrintedLines[2]) = 10 /\ LineId(PrintedLines[3]) = 10

(* C8 as stated: no two printed report lines carry the same finding id.      *)
C8_Original ==
    Reported =>
        \A i \in 1..Len(PrintedLines) : \A j \in 1..Len(PrintedLines) :
            i # j => LineId(PrintedLines[i]) # LineId(PrintedLines[j])

(* C9: with zero findings returned the program prints no report block,       *)
(* neither the header nor a finding line; the header is on stdout if and     *)
(* only if the report step ran on at least one finding.                      *)
C9_HeaderIffFindings ==
    /\ HeaderPrinted <=> (Reported /\ findings # <<>>)
    /\ (Reported /\ findings = <<>>) =>
           \A i \in 1..Len(stdout) : stdout[i] = WarningText
    /\ HeaderPrinted =>
           /\ Cardinality(HeaderAt) = 1
           /\ Len(stdout) = (CHOOSE i \in HeaderAt : TRUE) + 1

C9_Witness ==
    /\ Reported
    /\ Len(reqs) = 2
    /\ statuses = <<200, 200>>
    /\ findings = <<>>
    /\ stdout = <<>>

(* C10, as amended: at most one 'list applications' request and at most one  *)
(* 'list findings' request are issued, in that order; the findings request   *)
(* is issued only after the applications request returned a status below     *)
(* 400 and yielded an application id, and its URL carries that id; a 4xx or  *)
(* 5xx response from either request ends the run with an HTTPError, with no  *)
(* retry, no further request and no report printed.                          *)
EndsWith(s, suffix) ==
    Len(s) >= Len(suffix) /\ SubSeq(s, Len(s) - Len(suffix) + 1, Len(s)) = suffix

C10_RequestOrder ==
    /\ Len(reqs) <= 2
    /\ Len(statuses) = Len(reqs)
    /\ Len(reqs) >= 1 =>
           /\ reqs[1].url = ApiBase \o "/orgs/" \o env[OrgVar] \o "/apps"
           /\ reqs[1].params = <<>>
    /\ Len(reqs) = 2 =>
           /\ statuses[1] \notin 400..599
           /\ app_id \in AppIds
           /\ EndsWith(reqs[2].url, "/apps/" \o app_id \o "/findings")
           /\ env[OrgVar] = "42" =>
                  reqs[2].url = ApiBase \o "/orgs/42/apps/" \o app_id \o "/findings"
           /\ reqs[2].params = << <<"severity", "critical">>, <<"per_page", 249>> >>
    /\ \A i \in 1..Len(reqs) : reqs[i].headers = << <<"Authorization", "Bearer " \o env[TokenVar]>> >>

C10_ErrorIsFatal ==
    \A i \in 1..Len(statuses) :
        statuses[i] \in 400..599 =>
            /\ i = Len(statuses)
            /\ pc \in {"get_app_id_94", "get_crit_findings_129", "exit"}
            /\ Finished => exc = HTTPError(statuses[i]) /\ exit_code = 1
            /\ ~HeaderPrinted
            /\ findings = <<>>

====
